---- MODULE Spec2Model ----
(***************************************************************************)
(* Model of utils.go of iceberg-go: the literal set (literalSet), the      *)
(* positional accessor (accessor.Get), the string-slice Difference, the    *)
(* Avro container encoder driver (avroEncode) and the translation of a     *)
(* partition struct type into an Avro record schema.                       *)
(***************************************************************************)
EXTENDS Integers, Sequences, FiniteSets, TLC

(***************************************************************************)
(* Bounds of the model.                                                    *)
(***************************************************************************)
MaxLen == 1        \* longest byte content of a Binary / Fixed literal
MaxSeed == 1       \* the process-wide hash seed is one of 0..MaxSeed
HashSpace == 4     \* number of distinct hash values (stands for 2^64)
MaxAdds == 3       \* literals handed to one set over its life
MaxEqAdds == 2     \* literals handed to each of the two compared sets
MaxDepth == 2      \* deepest nesting of structured rows
MaxChain == 2      \* longest accessor chain
MaxDiffLen == 3    \* longest argument slice of Difference
MaxVals == 3       \* most records handed to avroEncode
MaxVersion == 2    \* format versions are 1..MaxVersion
MaxId == 2         \* field ids are 1..MaxId
MaxFields == 2     \* most fields of a struct type

VARIABLES
    lzseed,     \* var lzseed = maphash.MakeSeed()
    lhs,        \* a literalSet: map from key to struct{ orig Literal }
    rhs,        \* a second literalSet, the argument of Equals
    histL,      \* history: the literals handed to lhs so far, in order
    histR,      \* history: the literals handed to rhs so far, in order
    accRow,     \* accessor.Get: the argument s
    accChain,   \* accessor.Get: the receiver, as the positions a.pos, a.inner.pos, ...
    accInner,   \* accessor.Get: the local inner, as an index into accChain
    accVal,     \* accessor.Get: the local val, and the returned value
    accPc,      \* accessor.Get: "start", "loop", "done" or "panic"
    diffA,      \* Difference: the argument a
    diffB,      \* Difference: the argument b
    diffM,      \* Difference: the local map m
    diffOut,    \* Difference: the local slice diff, and the returned slice
    diffI,      \* Difference: number of items the running loop has consumed
    diffPc,     \* Difference: "index", "filter" or "done"
    encVals,    \* avroEncode: the argument vals
    encVersion, \* avroEncode: the argument version
    encState,   \* avroEncode: the encoder enc: "none", "open" or "closed"
    encCalls,   \* avroEncode: the calls of enc.Encode so far, with their outcome
    sink,       \* avroEncode: what the writer out has received
    encRet,     \* avroEncode: the returned error
    encPc,      \* avroEncode: "start", "loop" or "done"
    trField,    \* nestedFieldToAvroField: the argument f
    trSch,      \* nestedFieldToAvroField: the locals sch and err
    trOut,      \* nestedFieldToAvroField: the returned field and error
    trPc,       \* nestedFieldToAvroField: "start", "field" or "done"
    stFields,   \* structTypeToAvroPartitionSchema: st.Fields()
    aFields,    \* structTypeToAvroPartitionSchema: the local aFields
    stOut,      \* structTypeToAvroPartitionSchema: the returned schema and error
    stPc        \* structTypeToAvroPartitionSchema: "loop" or "done"

setVars == <<lzseed, lhs, rhs, histL, histR>>
accVars == <<accRow, accChain, accInner, accVal, accPc>>
diffVars == <<diffA, diffB, diffM, diffOut, diffI, diffPc>>
encVars == <<encVals, encVersion, encState, encCalls, sink, encRet, encPc>>
trVars == <<trField, trSch, trOut, trPc>>
stVars == <<stFields, aFields, stOut, stPc>>
vars == <<setVars, accVars, diffVars, encVars, trVars, stVars>>

(***************************************************************************)
(* Generic helpers.                                                        *)
(***************************************************************************)
Range(s) == {s[i] : i \in 1..Len(s)}

RECURSIVE SeqsUpTo(_, _)
SeqsUpTo(S, n) ==
    IF n = 0 THEN {<<>>}
    ELSE LET shorter == SeqsUpTo(S, n - 1)
         IN  shorter \cup {Append(s, x) : s \in {t \in shorter : Len(t) = n - 1}, x \in S}

(***************************************************************************)
(* Literals.  A literal is a kind and a payload; the payload is a sequence *)
(* of bytes for Binary and Fixed and a one-element sequence for a scalar.  *)
(***************************************************************************)
ByteKinds == {"Binary", "Fixed"}
ScalarKinds == {"Int32", "Int64"}

ByteStrings == SeqsUpTo({0, 1}, MaxLen)

Literals ==
    [kind : ByteKinds, val : ByteStrings]
        \cup [kind : ScalarKinds, val : {<<0>>, <<1>>}]

\* the nil Literal interface value
NilLit == [kind |-> "nil", val |-> <<>>]

\* Literal.Equals: same kind and same payload; false for a nil comparand
LitEquals(a, b) ==
    /\ b # NilLit
    /\ a.kind = b.kind
    /\ a.val = b.val

(***************************************************************************)
(* maphash.Bytes(lzseed, b): a deterministic function of the seed and the  *)
(* byte content into a finite hash space.  Whether two contents collide    *)
(* depends on the seed.                                                    *)
(***************************************************************************)
RECURSIVE HashBytes(_, _)
HashBytes(seed, b) ==
    IF b = <<>> THEN seed % HashSpace
    ELSE (HashBytes(seed, SubSeq(b, 1, Len(b) - 1)) * 31
             + (b[Len(b)] + 1) * (seed + 1)) % HashSpace

\* the map key of a byte literal: the uint64 hash of its content
HashKey(seed, lit) == [tag |-> "uint64", kind |-> "", val |-> <<HashBytes(seed, lit.val)>>]

\* the map key of any other literal: the literal itself (dynamic type and value)
LitKey(lit) == [tag |-> "Literal", kind |-> lit.kind, val |-> lit.val]

EmptySet == [k \in {} |-> [orig |-> NilLit]]

Put(l, k, e) == [x \in DOMAIN l \cup {k} |-> IF x = k THEN e ELSE l[x]]

(***************************************************************************)
(* literalSet.addliteral                                                   *)
(***************************************************************************)
\* mutant: an occupied bucket keeps the literal it already holds
addliteralKeepFirst(seed, l, v) ==
    IF v.kind \in ByteKinds
    THEN IF HashKey(seed, v) \in DOMAIN l THEN l
         ELSE Put(l, HashKey(seed, v), [orig |-> v])
    ELSE Put(l, LitKey(v), [orig |-> NilLit])

addliteral(seed, l, v) ==
    IF v.kind \in ByteKinds
    THEN Put(l, HashKey(seed, v), [orig |-> v])
    ELSE Put(l, LitKey(v), [orig |-> NilLit])

(***************************************************************************)
(* literalSet.Contains                                                     *)
(***************************************************************************)
\* mutant: a bucket hit is membership, without the Equals confirmation
ContainsByHashOnly(seed, l, lit) ==
    IF lit.kind \in ByteKinds
    THEN HashKey(seed, lit) \in DOMAIN l
    ELSE LitKey(lit) \in DOMAIN l

Contains(seed, l, lit) ==
    IF lit.kind \in ByteKinds
    THEN /\ HashKey(seed, lit) \in DOMAIN l
         /\ LitEquals(lit, l[HashKey(seed, lit)].orig)
    ELSE LitKey(lit) \in DOMAIN l

\* literalSet.Len
SetLen(l) == Cardinality(DOMAIN l)

\* the comparison function handed to maps.EqualFunc by literalSet.Equals
EntryEq(v1, v2) ==
    IF v1.orig = NilLit THEN v2.orig = NilLit
    ELSE IF v2.orig = NilLit THEN v1.orig = NilLit
    ELSE LitEquals(v1.orig, v2.orig)

\* literalSet.Equals: maps.EqualFunc(l, rhs, EntryEq)
SetEquals(l, r) ==
    /\ Cardinality(DOMAIN l) = Cardinality(DOMAIN r)
    /\ \A k \in DOMAIN l : k \in DOMAIN r /\ EntryEq(l[k], r[k])

\* literalSet.Members, as the set of the returned slice's elements
Members(l) ==
    {IF k.tag = "Literal" THEN [kind |-> k.kind, val |-> k.val] ELSE l[k].orig : k \in DOMAIN l}

\* the nil error of avroEncode
NoError == [op |-> "nil", record |-> 0]

\* the components that take no part in a specification stay as constructed
SetIdle ==
    /\ lzseed = 0
    /\ lhs = EmptySet
    /\ rhs = EmptySet
    /\ histL = <<>>
    /\ histR = <<>>

AccIdle ==
    /\ accRow = <<"row", <<>>>>
    /\ accChain = <<>>
    /\ accInner = 0
    /\ accVal = <<"nil", <<>>>>
    /\ accPc = "idle"

DiffIdle ==
    /\ diffA = <<>>
    /\ diffB = <<>>
    /\ diffM = <<>>
    /\ diffOut = <<>>
    /\ diffI = 0
    /\ diffPc = "idle"

EncIdle ==
    /\ encVals = <<>>
    /\ encVersion = 0
    /\ encState = "none"
    /\ encCalls = <<>>
    /\ sink = [header |-> <<>>, blocks |-> <<>>]
    /\ encRet = NoError
    /\ encPc = "idle"

TrIdle ==
    /\ trField = <<>>
    /\ trSch = <<>>
    /\ trOut = <<>>
    /\ trPc = "idle"
    /\ stFields = <<>>
    /\ aFields = <<>>
    /\ stOut = <<>>
    /\ stPc = "idle"

(***************************************************************************)
(* One literal set.  newLiteralSet(vals...) and Add(lits...) both range    *)
(* over their arguments and call addliteral on each; a step is one         *)
(* iteration of either loop.                                               *)
(***************************************************************************)
InitSet ==
    /\ lzseed \in 0..MaxSeed
    /\ lhs = EmptySet
    /\ histL = <<>>
    /\ rhs = EmptySet
    /\ histR = <<>>
    /\ AccIdle /\ DiffIdle /\ EncIdle /\ TrIdle

AddLhs ==
    \E v \in Literals :
        /\ Len(histL) < MaxAdds
        /\ lhs' = addliteral(lzseed, lhs, v)
        /\ histL' = Append(histL, v)
        /\ UNCHANGED <<lzseed, rhs, histR, accVars, diffVars, encVars, trVars, stVars>>

NextSet == AddLhs

SpecSet == InitSet /\ [][NextSet]_vars

(***************************************************************************)
(* Two literal sets, each built by its own calls of addliteral.            *)
(***************************************************************************)
InitEq ==
    /\ lzseed \in 0..MaxSeed
    /\ lhs = EmptySet
    /\ histL = <<>>
    /\ rhs = EmptySet
    /\ histR = <<>>
    /\ AccIdle /\ DiffIdle /\ EncIdle /\ TrIdle

AddLeft ==
    \E v \in Literals :
        /\ Len(histL) < MaxEqAdds
        /\ lhs' = addliteral(lzseed, lhs, v)
        /\ histL' = Append(histL, v)
        /\ UNCHANGED <<lzseed, rhs, histR, accVars, diffVars, encVars, trVars, stVars>>

AddRight ==
    \E v \in Literals :
        /\ Len(histR) < MaxEqAdds
        /\ rhs' = addliteral(lzseed, rhs, v)
        /\ histR' = Append(histR, v)
        /\ UNCHANGED <<lzseed, lhs, histL, accVars, diffVars, encVars, trVars, stVars>>

NextEq == AddLeft \/ AddRight

SpecEq == InitEq /\ [][NextEq]_vars

(***************************************************************************)
(* Properties of the literal set.                                          *)
(***************************************************************************)
ByteLiterals == {a \in Literals : a.kind \in ByteKinds}

\* C1: every literal that was handed to Add or newLiteralSet is reported
\* by Contains afterwards, whatever else was added before or after it.
C1_AddedStaysContained ==
    \A i \in 1..Len(histL) : Contains(lzseed, lhs, histL[i])

C3_EqualsIsMembershipEquality ==
    /\ SetEquals(lhs, rhs)
          <=> \A a \in Literals : Contains(lzseed, lhs, a) <=> Contains(lzseed, rhs, a)
    /\ Range(histL) = Range(histR) => SetEquals(lhs, rhs)

\* C10: Contains of a Binary or Fixed literal is true only if a literal of
\* the same kind and the same bytes was added; a stored literal of the other
\* byte kind or with a colliding hash never makes it true.
C10_NoMembershipByHashAlone ==
    \A lit \in ByteLiterals :
        Contains(lzseed, lhs, lit) => \E i \in 1..Len(histL) : LitEquals(lit, histL[i])

\* C10 witness: the bucket of a literal that was never added is occupied,
\* both by a literal of the other byte kind and by one of the same kind whose
\* different content has the same hash.
C10_Witness ==
    /\ \E lit \in ByteLiterals :
          /\ lit \notin Range(histL)
          /\ HashKey(lzseed, lit) \in DOMAIN lhs
          /\ lhs[HashKey(lzseed, lit)].orig.kind = lit.kind
          /\ lhs[HashKey(lzseed, lit)].orig.val # lit.val
          /\ ~Contains(lzseed, lhs, lit)
    /\ \E lit \in ByteLiterals :
          /\ lit \notin Range(histL)
          /\ HashKey(lzseed, lit) \in DOMAIN lhs
          /\ lhs[HashKey(lzseed, lit)].orig.kind # lit.kind
          /\ lhs[HashKey(lzseed, lit)].orig.val = lit.val
          /\ ~Contains(lzseed, lhs, lit)

(***************************************************************************)
(* Values held by rows: nil, a scalar, or a nested structured row.         *)
(***************************************************************************)
Nil == <<"nil", <<>>>>
Scalar(n) == <<"val", <<n>>>>
Row(cols) == <<"row", cols>>

LeafValues == {Nil, Scalar(0)}

\* the column positions an accessor may name; a row has one or two columns
Positions == {0, 1}

NonEmptySeqs(S, n) == SeqsUpTo(S, n) \ {<<>>}

RECURSIVE ValuesOfDepth(_)
ValuesOfDepth(d) ==
    IF d = 0 THEN LeafValues
    ELSE LET below == ValuesOfDepth(d - 1)
         IN  below \cup {Row(cols) : cols \in NonEmptySeqs(below, Cardinality(Positions))}

Rows == {v \in ValuesOfDepth(MaxDepth) : v[1] = "row"}
Chains == NonEmptySeqs(Positions, MaxChain)

\* val.(structLike): whether the type assertion succeeds
IsStructLike(v) == v[1] = "row"

\* structLike.Size
Size(s) == Len(s[2])

\* structLike.Get(pos), for pos within [0, Size())
RowGet(s, pos) == s[2][pos + 1]

\* mutant: the loop goes on through a nil value
DescendsThroughNil(val, chain, inner) == inner < Len(chain)

\* the loop condition of accessor.Get: val != nil && inner.inner != nil
Descends(val, chain, inner) == val # Nil /\ inner < Len(chain)

(***************************************************************************)
(* accessor.Get, one step per evaluation of a Get on a row.                *)
(***************************************************************************)
InitAcc ==
    /\ SetIdle /\ DiffIdle /\ EncIdle /\ TrIdle
    /\ accRow \in Rows
    /\ accChain \in Chains
    /\ accInner = 0
    /\ accVal = Nil
    /\ accPc = "start"

\* val, inner := s.Get(a.pos), a
GetEnter ==
    /\ accPc = "start"
    /\ accInner' = 1
    /\ IF accChain[1] < Size(accRow)
       THEN accVal' = RowGet(accRow, accChain[1]) /\ accPc' = "loop"
       ELSE accVal' = Nil /\ accPc' = "panic"
    /\ UNCHANGED <<setVars, diffVars, encVars, trVars, stVars, accRow, accChain>>

\* inner = inner.inner; val = val.(structLike).Get(inner.pos)
GetDescend ==
    /\ accPc = "loop"
    /\ Descends(accVal, accChain, accInner)
    /\ accInner' = accInner + 1
    /\ IF IsStructLike(accVal) /\ accChain[accInner + 1] < Size(accVal)
       THEN accVal' = RowGet(accVal, accChain[accInner + 1]) /\ accPc' = "loop"
       ELSE accVal' = accVal /\ accPc' = "panic"
    /\ UNCHANGED <<setVars, diffVars, encVars, trVars, stVars, accRow, accChain>>

\* return val
GetReturn ==
    /\ accPc = "loop"
    /\ ~Descends(accVal, accChain, accInner)
    /\ accPc' = "done"
    /\ UNCHANGED <<setVars, diffVars, encVars, trVars, stVars, accRow, accChain, accInner, accVal>>

NextAcc == GetEnter \/ GetDescend \/ GetReturn

SpecAcc == InitAcc /\ [][NextAcc]_vars

(***************************************************************************)
(* Properties of accessor.Get.                                             *)
(***************************************************************************)
\* the value reached by descending from v along the positions rest for as
\* long as the current value is a structured row
RECURSIVE Walk(_, _)
Walk(v, rest) ==
    IF rest = <<>> \/ v[1] # "row" THEN v
    ELSE Walk(v[2][rest[1] + 1], Tail(rest))

\* every position used by that descent is within the row it indexes
RECURSIVE InRange(_, _)
InRange(v, rest) ==
    \/ rest = <<>>
    \/ v[1] # "row"
    \/ /\ rest[1] < Len(v[2])
       /\ InRange(v[2][rest[1] + 1], Tail(rest))

\* that descent ends on a non-nil value that is not a row while positions remain
RECURSIVE EndsOnScalar(_, _)
EndsOnScalar(v, rest) ==
    /\ rest # <<>>
    /\ IF v[1] = "row" THEN EndsOnScalar(v[2][rest[1] + 1], Tail(rest))
       ELSE v[1] = "val"

GetFinished == accPc \in {"done", "panic"}

Items == {"a", "b", "c"}

\* m[item] on a map[string]bool: false for a missing key
Lookup(m, item) == IF item \in DOMAIN m THEN m[item] ELSE FALSE

\* mutant: the test of the second loop is inverted
KeepsInverted(m, item) == Lookup(m, item)

\* whether the second loop appends item to diff: !m[item]
Keeps(m, item) == ~Lookup(m, item)

InitDiff ==
    /\ SetIdle /\ AccIdle /\ EncIdle /\ TrIdle
    /\ diffA \in SeqsUpTo(Items, MaxDiffLen)
    /\ diffB \in SeqsUpTo(Items, MaxDiffLen)
    /\ diffM = <<>>
    /\ diffOut = <<>>
    /\ diffI = 0
    /\ diffPc = "index"

\* for _, item := range b { m[item] = true }
DiffIndex ==
    /\ diffPc = "index"
    /\ diffI < Len(diffB)
    /\ diffM' = [k \in DOMAIN diffM \cup {diffB[diffI + 1]} |->
                    IF k = diffB[diffI + 1] THEN TRUE ELSE diffM[k]]
    /\ diffI' = diffI + 1
    /\ UNCHANGED <<setVars, accVars, encVars, trVars, stVars, diffA, diffB, diffOut, diffPc>>

\* diff := make([]string, 0), entering the second loop
DiffIndexed ==
    /\ diffPc = "index"
    /\ diffI = Len(diffB)
    /\ diffOut' = <<>>
    /\ diffI' = 0
    /\ diffPc' = "filter"
    /\ UNCHANGED <<setVars, accVars, encVars, trVars, stVars, diffA, diffB, diffM>>

\* for _, item := range a { if !m[item] { diff = append(diff, item) } }
DiffFilter ==
    /\ diffPc = "filter"
    /\ diffI < Len(diffA)
    /\ diffOut' = IF Keeps(diffM, diffA[diffI + 1])
                  THEN Append(diffOut, diffA[diffI + 1])
                  ELSE diffOut
    /\ diffI' = diffI + 1
    /\ UNCHANGED <<setVars, accVars, encVars, trVars, stVars, diffA, diffB, diffM, diffPc>>

\* return diff
DiffReturn ==
    /\ diffPc = "filter"
    /\ diffI = Len(diffA)
    /\ diffPc' = "done"
    /\ UNCHANGED <<setVars, accVars, encVars, trVars, stVars, diffA, diffB, diffM, diffOut, diffI>>

NextDiff == DiffIndex \/ DiffIndexed \/ DiffFilter \/ DiffReturn

SpecDiff == InitDiff /\ [][NextDiff]_vars

\* C9: Difference(a, b) is a without its elements that occur in b, in a's
\* order and with a's multiplicity, and Difference(X, X) is empty.
C9_DifferenceIsOrderedFilter ==
    diffPc = "done"
        => /\ LET NotInB(x) == \A j \in 1..Len(diffB) : diffB[j] # x
              IN  diffOut = SelectSeq(diffA, NotInB)
           /\ diffA = diffB => diffOut = <<>>

\* C9 witness: Difference(["a", "b", "c"], ["b"]) has returned ["a", "c"].
C9_Witness ==
    /\ diffPc = "done"
    /\ diffA = <<"a", "b", "c">>
    /\ diffB = <<"b">>
    /\ diffOut = <<"a", "c">>

\* C9 witness of the second case: Difference(X, X) has returned for a
\* non-empty X.
C9_WitnessSame ==
    /\ diffPc = "done"
    /\ diffA = diffB
    /\ diffA # <<>>

(***************************************************************************)
(* avroEncode(sch, version, vals, out)                                     *)
(***************************************************************************)
RecordValues == {"r1", "r2"}

Digit(d) == <<"0", "1", "2", "3", "4", "5", "6", "7", "8", "9">>[d + 1]

\* strconv.Itoa
RECURSIVE Itoa(_)
Itoa(n) ==
    IF n < 0 THEN <<"-">> \o Itoa(0 - n)
    ELSE IF n < 10 THEN <<Digit(n)>>
    ELSE Append(Itoa(n \div 10), Digit(n % 10))

\* the error values avroEncode can return
NewEncoderError == [op |-> "ocf.NewEncoderWithSchema", record |-> 0]
EncodeError(i) == [op |-> "enc.Encode", record |-> i]
CloseError == [op |-> "enc.Close", record |-> 0]

InitEnc ==
    /\ SetIdle /\ AccIdle /\ DiffIdle /\ TrIdle
    /\ encVals \in SeqsUpTo(RecordValues, MaxVals)
    /\ encVersion \in 1..MaxVersion
    /\ encState = "none"
    /\ encCalls = <<>>
    /\ sink = [header |-> <<>>, blocks |-> <<>>]
    /\ encRet = NoError
    /\ encPc = "start"

\* ocf.NewEncoderWithSchema succeeds: the header, with the format-version
\* metadata, is written to out
NewEncoderOk ==
    /\ encPc = "start"
    /\ encState' = "open"
    /\ sink' = [sink EXCEPT !.header = <<"format-version", Itoa(encVersion)>>]
    /\ encPc' = "loop"
    /\ UNCHANGED <<setVars, accVars, diffVars, trVars, stVars, encVals, encVersion, encCalls, encRet>>

\* ocf.NewEncoderWithSchema fails: return err
NewEncoderFails ==
    /\ encPc = "start"
    /\ encRet' = NewEncoderError
    /\ encPc' = "done"
    /\ UNCHANGED <<setVars, accVars, diffVars, trVars, stVars, encVals, encVersion, encState, encCalls, sink>>

\* enc.Encode(file) succeeds: the record is buffered in the encoder
EncodeOk ==
    /\ encPc = "loop"
    /\ Len(encCalls) < Len(encVals)
    /\ encCalls' = Append(encCalls, [val |-> encVals[Len(encCalls) + 1], ok |-> TRUE])
    /\ UNCHANGED <<setVars, accVars, diffVars, trVars, stVars, encVals, encVersion, encState, sink, encRet, encPc>>

\* mutant: the error of enc.Encode is noted and the loop goes on
EncodeFailsIgnored ==
    /\ encPc = "loop"
    /\ Len(encCalls) < Len(encVals)
    /\ encCalls' = Append(encCalls, [val |-> encVals[Len(encCalls) + 1], ok |-> FALSE])
    /\ encRet' = EncodeError(Len(encCalls) + 1)
    /\ UNCHANGED <<setVars, accVars, diffVars, trVars, stVars, encVals, encVersion, encState, sink, encPc>>

\* enc.Encode(file) fails: return err
EncodeFails ==
    /\ encPc = "loop"
    /\ Len(encCalls) < Len(encVals)
    /\ encCalls' = Append(encCalls, [val |-> encVals[Len(encCalls) + 1], ok |-> FALSE])
    /\ encRet' = EncodeError(Len(encCalls) + 1)
    /\ encPc' = "done"
    /\ UNCHANGED <<setVars, accVars, diffVars, trVars, stVars, encVals, encVersion, encState, sink>>

\* return enc.Close(): the buffered records are flushed to out as a block
CloseOk ==
    /\ encPc = "loop"
    /\ Len(encCalls) = Len(encVals)
    /\ encState' = "closed"
    /\ sink' = [sink EXCEPT !.blocks = [i \in 1..Len(encCalls) |-> encCalls[i].val]]
    /\ encRet' = NoError
    /\ encPc' = "done"
    /\ UNCHANGED <<setVars, accVars, diffVars, trVars, stVars, encVals, encVersion, encCalls>>

\* return enc.Close(), and the flush fails
CloseFails ==
    /\ encPc = "loop"
    /\ Len(encCalls) = Len(encVals)
    /\ encState' = "closed"
    /\ encRet' = CloseError
    /\ encPc' = "done"
    /\ UNCHANGED <<setVars, accVars, diffVars, trVars, stVars, encVals, encVersion, encCalls, sink>>

NextEnc ==
    \/ NewEncoderOk
    \/ NewEncoderFails
    \/ EncodeOk
    \/ EncodeFails
    \/ CloseOk
    \/ CloseFails

SpecEnc == InitEnc /\ [][NextEnc]_vars

\* C4: whenever the encoder was created, it is closed before avroEncode
\* returns, when every record encodes and when a record fails to encode.
C4_EncoderAlwaysClosed ==
    (encPc = "done" /\ encState # "none") => encState = "closed"

\* C5: records are handed to the encoder in input order; a failed record
\* is the last one handed over and its error is what avroEncode returns; if
\* the encoder could not be created no record is encoded.
C5_FailureAbortsSession ==
    /\ Len(encCalls) <= Len(encVals)
    /\ \A i \in 1..Len(encCalls) :
          /\ encCalls[i].val = encVals[i]
          /\ ~encCalls[i].ok => /\ i = Len(encCalls)
                                /\ encPc = "done"
                                /\ encRet = EncodeError(i)
    /\ (encPc = "done" /\ encRet = NewEncoderError)
          => /\ encCalls = <<>>
             /\ sink.blocks = <<>>
             /\ encState = "none"
    /\ (sink.blocks # <<>> \/ encCalls # <<>>)
          => sink.header = <<"format-version", Itoa(encVersion)>>

\* C5 witness: avroEncode has returned the error of a record that was
\* neither the first nor the last of vals.
C5_Witness ==
    /\ encPc = "done"
    /\ Len(encCalls) = 2
    /\ Len(encVals) = 3
    /\ ~encCalls[2].ok
    /\ encRet = EncodeError(2)

(***************************************************************************)
(* Translation of nested fields and struct types into Avro schemas.        *)
(***************************************************************************)
SupportedTypes ==
    {"string", "int", "long", "binary", "boolean", "float", "double",
     "date", "time", "timestamp", "timestamptz", "uuid"}

\* the Iceberg types that fall into the default case of the type switch
OtherTypes == {"fixed", "decimal", "struct", "list", "map"}

FieldNames == {<<"a">>, <<"b", "1">>, <<"1">>, <<>>}

NestedFields ==
    [ID : 1..MaxId, Name : FieldNames, Type : SupportedTypes \cup OtherTypes,
     Required : BOOLEAN, Doc : {"", "doc"}]

Letters ==
    {"a", "b", "c", "d", "e", "f", "g", "h", "i", "j", "k", "l", "m",
     "n", "o", "p", "q", "r", "s", "t", "u", "v", "w", "x", "y", "z",
     "A", "B", "C", "D", "E", "F", "G", "H", "I", "J", "K", "L", "M",
     "N", "O", "P", "Q", "R", "S", "T", "U", "V", "W", "X", "Y", "Z"}
Digits == {"0", "1", "2", "3", "4", "5", "6", "7", "8", "9"}

\* the name check of the Avro schema constructors: a letter or underscore,
\* then letters, digits and underscores
ValidName(name) ==
    /\ name # <<>>
    /\ name[1] \in Letters \cup {"_"}
    /\ \A i \in 2..Len(name) : name[i] \in Letters \cup Digits \cup {"_"}

NilSchema == <<"nil", <<>>>>
NilErr == <<"nil", <<>>>>
Result(sch, err) == [sch |-> sch, err |-> err]

\* avro.NewNullSchema()
NewNullSchema == <<"null", <<>>>>

\* avro.NewPrimitiveSchema(type, logical, avro.WithProps(props))
NewPrimitiveSchema(type, logical, props) ==
    <<"primitive", [type |-> type, logical |-> logical, props |-> props]>>

\* avro.NewFixedSchema(name, "", size, logical)
NewFixedSchema(name, size, logical) ==
    IF ValidName(name)
    THEN Result(<<"fixed", [name |-> name, size |-> size, logical |-> logical]>>, NilErr)
    ELSE Result(NilSchema, <<"avro: invalid name", name>>)

\* avro.NewUnionSchema(types)
NewUnionSchema(types) == Result(<<"union", types>>, NilErr)

UuidFixed == <<"u", "u", "i", "d", "_", "f", "i", "x", "e", "d">>

\* the type switch of nestedFieldToAvroSchema
TypeSwitch(type) ==
    CASE type = "string"      -> Result(NewPrimitiveSchema("string", "", <<>>), NilErr)
      [] type = "int"         -> Result(NewPrimitiveSchema("int", "", <<>>), NilErr)
      [] type = "long"        -> Result(NewPrimitiveSchema("long", "", <<>>), NilErr)
      [] type = "binary"      -> Result(NewPrimitiveSchema("bytes", "", <<>>), NilErr)
      [] type = "boolean"     -> Result(NewPrimitiveSchema("boolean", "", <<>>), NilErr)
      [] type = "float"       -> Result(NewPrimitiveSchema("float", "", <<>>), NilErr)
      [] type = "double"      -> Result(NewPrimitiveSchema("double", "", <<>>), NilErr)
      [] type = "date"        -> Result(NewPrimitiveSchema("int", "date", <<>>), NilErr)
      [] type = "time"        -> Result(NewPrimitiveSchema("long", "time-micros", <<>>), NilErr)
      [] type = "timestamp"   ->
            Result(NewPrimitiveSchema("long", "time-micros", <<"adjust-to-utc", FALSE>>), NilErr)
      [] type = "timestamptz" ->
            Result(NewPrimitiveSchema("long", "time-micros", <<"adjust-to-utc", TRUE>>), NilErr)
      [] type = "uuid"        -> NewFixedSchema(UuidFixed, 16, "uuid")
      [] OTHER                -> Result(NilSchema, <<"unsupported Iceberg type", <<type>>>>)

\* mutant: the null branch of the union comes last
nestedFieldToAvroSchemaNullLast(f) ==
    LET r == TypeSwitch(f.Type)
    IN  IF r.err # NilErr THEN Result(NilSchema, r.err)
        ELSE IF ~f.Required THEN NewUnionSchema(<<r.sch, NewNullSchema>>)
        ELSE Result(r.sch, NilErr)

\* nestedFieldToAvroSchema(f)
nestedFieldToAvroSchema(f) ==
    LET r == TypeSwitch(f.Type)
    IN  IF r.err # NilErr THEN Result(NilSchema, r.err)
        ELSE IF ~f.Required THEN NewUnionSchema(<<NewNullSchema, r.sch>>)
        ELSE Result(r.sch, NilErr)

\* avro.NewField(name, sch, avro.WithDoc(doc), avro.WithProps(props))
NewField(name, sch, doc, props) ==
    IF ValidName(name)
    THEN Result(<<"field", [name |-> name, type |-> sch, doc |-> doc, props |-> props]>>, NilErr)
    ELSE Result(NilSchema, <<"avro: invalid name", name>>)

\* nestedFieldToAvroField(f), after sch, err := nestedFieldToAvroSchema(f)
FieldFromSchema(f, r) ==
    IF r.err # NilErr THEN Result(NilSchema, r.err)
    ELSE NewField(f.Name, r.sch, f.Doc, <<"field-id", f.ID>>)

\* nestedFieldToAvroField(f)
nestedFieldToAvroField(f) == FieldFromSchema(f, nestedFieldToAvroSchema(f))

R102 == <<"r", "1", "0", "2">>

\* avro.NewRecordSchema(name, "", fields)
NewRecordSchema(name, fields) ==
    IF ValidName(name)
    THEN Result(<<"record", [name |-> name, namespace |-> "", fields |-> fields]>>, NilErr)
    ELSE Result(NilSchema, <<"avro: invalid name", name>>)

(***************************************************************************)
(* nestedFieldToAvroField applied to one field.                            *)
(***************************************************************************)
InitField ==
    /\ SetIdle /\ AccIdle /\ DiffIdle /\ EncIdle
    /\ trField \in NestedFields
    /\ trSch = <<>>
    /\ trOut = <<>>
    /\ trPc = "start"
    /\ stFields = <<>>
    /\ aFields = <<>>
    /\ stOut = <<>>
    /\ stPc = "idle"

\* sch, err := nestedFieldToAvroSchema(f)
FieldSchema ==
    /\ trPc = "start"
    /\ trSch' = nestedFieldToAvroSchema(trField)
    /\ trPc' = "field"
    /\ UNCHANGED <<setVars, accVars, diffVars, encVars, stVars, trField, trOut>>

\* if err != nil { return nil, err }; return avro.NewField(...)
FieldReturn ==
    /\ trPc = "field"
    /\ trOut' = FieldFromSchema(trField, trSch)
    /\ trPc' = "done"
    /\ UNCHANGED <<setVars, accVars, diffVars, encVars, stVars, trField, trSch>>

NextField == FieldSchema \/ FieldReturn

SpecField == InitField /\ [][NextField]_vars

(***************************************************************************)
(* structTypeToAvroPartitionSchema, one step per loop iteration.           *)
(***************************************************************************)
StructFieldTypes == {"long", "uuid", "list"}

StructFields == {f \in NestedFields : f.Type \in StructFieldTypes /\ f.Doc = ""}

\* the struct types of at most n fields; the field ids of a struct type are
\* unique
RECURSIVE StructTypesUpTo(_)
StructTypesUpTo(n) ==
    IF n = 0 THEN {<<>>}
    ELSE LET shorter == StructTypesUpTo(n - 1)
             longer == {Append(st, f) : st \in {t \in shorter : Len(t) = n - 1},
                                       f \in StructFields}
         IN  shorter \cup {st \in longer : \A i \in 1..(n - 1) : st[i].ID # st[n].ID}

InitStruct ==
    /\ SetIdle /\ AccIdle /\ DiffIdle /\ EncIdle
    /\ trField = <<>>
    /\ trSch = <<>>
    /\ trOut = <<>>
    /\ trPc = "idle"
    /\ stFields \in StructTypesUpTo(MaxFields)
    /\ aFields = <<>>
    /\ stOut = <<>>
    /\ stPc = "loop"

\* a loop iteration whose nestedFieldToAvroField succeeds
StructFieldOk ==
    /\ stPc = "loop"
    /\ Len(aFields) < Len(stFields)
    /\ LET r == nestedFieldToAvroField(stFields[Len(aFields) + 1])
       IN  /\ r.err = NilErr
           /\ aFields' = Append(aFields, r.sch)
    /\ UNCHANGED <<setVars, accVars, diffVars, encVars, trVars, stFields, stOut, stPc>>

\* mutant: a failing field returns the record of the fields translated so far
StructFieldFailsPartial ==
    /\ stPc = "loop"
    /\ Len(aFields) < Len(stFields)
    /\ LET r == nestedFieldToAvroField(stFields[Len(aFields) + 1])
       IN  /\ r.err # NilErr
           /\ stOut' = Result(NewRecordSchema(R102, aFields).sch, r.err)
    /\ stPc' = "done"
    /\ UNCHANGED <<setVars, accVars, diffVars, encVars, trVars, stFields, aFields>>

\* a loop iteration whose nestedFieldToAvroField fails: return nil, err
StructFieldFails ==
    /\ stPc = "loop"
    /\ Len(aFields) < Len(stFields)
    /\ LET r == nestedFieldToAvroField(stFields[Len(aFields) + 1])
       IN  /\ r.err # NilErr
           /\ stOut' = Result(NilSchema, r.err)
    /\ stPc' = "done"
    /\ UNCHANGED <<setVars, accVars, diffVars, encVars, trVars, stFields, aFields>>

\* return avro.NewRecordSchema("r102", "", aFields)
StructReturn ==
    /\ stPc = "loop"
    /\ Len(aFields) = Len(stFields)
    /\ stOut' = NewRecordSchema(R102, aFields)
    /\ stPc' = "done"
    /\ UNCHANGED <<setVars, accVars, diffVars, encVars, trVars, stFields, aFields>>

NextStruct == StructFieldOk \/ StructFieldFails \/ StructReturn

SpecStruct == InitStruct /\ [][NextStruct]_vars

(***************************************************************************)
(* Properties of the translation.                                          *)
(***************************************************************************)
\* the physical representation and logical annotation of each supported
\* logical type
PhysicalOf(type) ==
    CASE type = "string"      -> <<"primitive", [type |-> "string", logical |-> "", props |-> <<>>]>>
      [] type = "int"         -> <<"primitive", [type |-> "int", logical |-> "", props |-> <<>>]>>
      [] type = "long"        -> <<"primitive", [type |-> "long", logical |-> "", props |-> <<>>]>>
      [] type = "binary"      -> <<"primitive", [type |-> "bytes", logical |-> "", props |-> <<>>]>>
      [] type = "boolean"     -> <<"primitive", [type |-> "boolean", logical |-> "", props |-> <<>>]>>
      [] type = "float"       -> <<"primitive", [type |-> "float", logical |-> "", props |-> <<>>]>>
      [] type = "double"      -> <<"primitive", [type |-> "double", logical |-> "", props |-> <<>>]>>
      [] type = "date"        -> <<"primitive", [type |-> "int", logical |-> "date", props |-> <<>>]>>
      [] type = "time"        ->
            <<"primitive", [type |-> "long", logical |-> "time-micros", props |-> <<>>]>>
      [] type = "timestamp"   ->
            <<"primitive", [type |-> "long", logical |-> "time-micros",
                            props |-> <<"adjust-to-utc", FALSE>>]>>
      [] type = "timestamptz" ->
            <<"primitive", [type |-> "long", logical |-> "time-micros",
                            props |-> <<"adjust-to-utc", TRUE>>]>>
      [] type = "uuid"        ->
            <<"fixed", [name |-> UuidFixed, size |-> 16, logical |-> "uuid"]>>

\* C7: for a supported type, a non-required field translates to the union
\* <<null, physical schema>> and a required field to the physical schema
\* with no union around it.
C7_NullabilityWrapping ==
    (trPc # "start" /\ trField.Type \in SupportedTypes)
        => /\ trSch.err = NilErr
           /\ IF trField.Required
              THEN /\ trSch.sch = PhysicalOf(trField.Type)
                   /\ trSch.sch[1] # "union"
              ELSE /\ trSch.sch[1] = "union"
                   /\ Len(trSch.sch[2]) = 2
                   /\ trSch.sch[2][1] = <<"null", <<>>>>
                   /\ trSch.sch[2][2] = PhysicalOf(trField.Type)

\* C7 witness: an optional timestamptz field has been translated.
C7_Witness ==
    /\ trPc = "done"
    /\ trField.Type = "timestamptz"
    /\ ~trField.Required
    /\ trSch.sch[1] = "union"
    /\ trOut.err = NilErr

HasUnsupportedType == \E i \in 1..Len(stFields) : stFields[i].Type \notin SupportedTypes
HasInvalidName == \E i \in 1..Len(stFields) : ~ValidName(stFields[i].Name)

\* the returned schema is a record with one field per input field, in the
\* input's order, each carrying the name and the field-id of its source
IsRecordOfInput ==
    /\ stOut.err = NilErr
    /\ stOut.sch[1] = "record"
    /\ Len(stOut.sch[2].fields) = Len(stFields)
    /\ \A i \in 1..Len(stFields) :
          /\ stOut.sch[2].fields[i][2].name = stFields[i].Name
          /\ stOut.sch[2].fields[i][2].props = <<"field-id", stFields[i].ID>>

IsFailure ==
    /\ stOut.err # NilErr
    /\ stOut.sch = NilSchema

\* C8: the translation fails with a nil schema if some field has an
\* unsupported type, and otherwise returns the record of the input's fields.
C8_AllOrNothing ==
    stPc = "done" => IF HasUnsupportedType THEN IsFailure ELSE IsRecordOfInput

\* C8 amended: the translation fails with a nil schema if some field has an
\* unsupported type or a name that the Avro schema builder rejects, and
\* otherwise returns the record of the input's fields.
C8_AllOrNothingAmended ==
    stPc = "done"
        => IF HasUnsupportedType \/ HasInvalidName THEN IsFailure ELSE IsRecordOfInput

\* C8 witness: the translation has failed on an unsupported second field
\* after the first field was translated.
C8_Witness ==
    /\ stPc = "done"
    /\ Len(stFields) = 2
    /\ Len(aFields) = 1
    /\ stFields[2].Type = "list"
    /\ stOut.sch = NilSchema

====
